---- MODULE Spec2Model ----
(***************************************************************************)
(* The packet protocol engine of the Sphero driver                         *)
(* (src/platforms/firmata/firmata_adaptor.go, package sphero, l.252-643):  *)
(* the packet codec, the command API, the transmit worker, the receive     *)
(* framer, the sync-buffer writer and the synchronous request path.        *)
(*                                                                         *)
(* Bytes are integers 0..255; a frame is a sequence of bytes.  TLA+        *)
(* sequences are 1-based: Go's data[k] is data[k+1] here.                  *)
(***************************************************************************)
EXTENDS Integers, Sequences, FiniteSets, TLC

\* ------------------------------------------------------------- bounds
\* Capacity of packetChannel and responseChannel (1024 in the source).
ChanCap == 2
\* Polls of getSyncResponse before it gives up (500 in the source).
PollBudget == 2
\* API calls the host application makes in one run.
MaxCalls == 3
\* Synchronous requests (GetRGB) among them.
MaxSyncCalls == 1
\* Frames the device sends in one run.
MaxInFrames == 2
\* Transport writes that fail (I/O error or short write) in one run.
MaxWriteFailures == 1
\* Ticks of the timer Halt starts (100 in the source: every 10 ms for 1 s).
MaxTicks == 2

\* --------------------------------------------------- program constants
ByteMod     == 256
Uint16Mod   == 65536
SOP         == 255
SyncMarker  == 255
AsyncMarker == 254
RespHeaderLen == 5
DidSphero   == 2
CidSetRGB   == 32
CidGetRGB   == 34
CidCollisionDetection == 18
CidStopOnDisconnect   == 55
RGBReplyLen == 9
MinReplyLen == 6
CidSetDataStreaming == 17
CidRoll == 48
SensorFrequencyDefault == 10
SensorFrequencyMax     == 420
IdCollision == 7
IdStreaming == 3
CollisionFrameLen == 22
CollisionDlen     == 17
StreamingFrameLen == 90

VARIABLES
    seq,              \* SpheroDriver.seq (uint8)
    packetChannel,    \* SpheroDriver.packetChannel: queue of packets
    responseChannel,  \* SpheroDriver.responseChannel: queue of frames
    syncResponse,     \* SpheroDriver.syncResponse
    asyncResponse,    \* SpheroDriver.asyncResponse
    cdConfigured,     \* SpheroDriver.cdConfigured
    started,          \* Start has spawned the four workers
    caller,           \* the host goroutine inside the command API
    txw,              \* the transmit worker goroutine
    sw,               \* the sync-buffer writer goroutine
    rx,               \* the receive framer goroutine
    inStream,         \* bytes the device has sent and the framer has not read
    wire,             \* history: every transport write attempt, in order
    errorEvents,      \* history: events published on the error topic
    enqLog,           \* history: every packet placed on packetChannel
    rxLog,            \* history: every frame the framer assembled
    syncLog,          \* history: frames stored into syncResponse
    asyncLog,         \* history: frames stored into asyncResponse
    results,          \* history: values returned by sync calls
    okBefore,         \* history: writes completed before the run starts
    nCalls, nSent, nWriteFailures, nReadErrors,
    disp,             \* the async event dispatcher goroutine
    halt,             \* the goroutine inside Halt
    timer,            \* the goroutine running the callback Halt hands to Every
    connected,        \* SpheroAdaptor's connected flag
    dispLog,          \* history: every frame the dispatcher took, and its event
    callLog,          \* history: every call of the command API
    sentLog           \* history: every frame the device put on the line

vars == << seq, packetChannel, responseChannel, syncResponse, asyncResponse,
           cdConfigured, started, caller, txw, sw, rx, inStream, wire,
           errorEvents, enqLog, rxLog, syncLog, asyncLog, results,
           okBefore, nCalls, nSent, nWriteFailures, nReadErrors,
           disp, halt, timer, connected, dispLog, callLog, sentLog >>

\* ---------------------------------------------------------- the codec
RECURSIVE SumBytes(_)
\* The uint16 accumulator of calculateChecksum after its loop (l.615-618).
\* Addition modulo 2^16 is associative, so the loop's running sum is
\* computed here by halves, which keeps the evaluation shallow on long frames.
SumBytes(buf) ==
    IF buf = << >> THEN 0
    ELSE IF Len(buf) = 1 THEN buf[1] % Uint16Mod
    ELSE LET h == Len(buf) \div 2
         IN  (SumBytes(SubSeq(buf, 1, h)) + SumBytes(SubSeq(buf, h + 1, Len(buf))))
                 % Uint16Mod

\* calculateChecksum(buf []byte): uint8(^(sum % 256)) with sum a uint16.
calculateChecksum(buf) ==
    ((Uint16Mod - 1) - (SumBytes(buf) % ByteMod)) % ByteMod

\* craftHeader with dlen := len(body), the checksum byte not counted.
craftHeaderBodyOnly(body, did, cid, s) ==
    << SOP, SOP, did, cid, s, Len(body) % ByteMod >>

\* The header craftPacket builds: two start bytes, did, cid, seq, uint8(dlen).
craftHeader(body, did, cid, s) ==
    << SOP, SOP, did, cid, s, (Len(body) + 1) % ByteMod >>

\* calculateChecksumPacket over the whole of header ++ body, start bytes
\* included.
calculateChecksumWithStart(header, body) ==
    calculateChecksum(header \o body)

\* (s *SpheroDriver) calculateChecksum(packet): over header[2:] ++ body.
calculateChecksumPacket(header, body) ==
    calculateChecksum(SubSeq(header \o body, 3, Len(header) + Len(body)))

\* craftPacket(body, did, cid) with s the value of s.seq it reads.
craftPacket(body, did, cid, s) ==
    LET header == craftHeader(body, did, cid, s)
    IN  [ header   |-> header,
          body     |-> body,
          checksum |-> calculateChecksumPacket(header, body) ]

\* The bytes write() hands to the transport: header ++ body ++ checksum.
Serialize(p) == p.header \o p.body \o << p.checksum >>

\* The framer's test on an assembled frame (l.409-410):
\* data[len-1] = calculateChecksum(data[2:len-1]).
ChecksumOK(data) ==
    data[Len(data)] = calculateChecksum(SubSeq(data, 3, Len(data) - 1))

\* ------------------------------------------------------------ helpers
Min(a, b) == IF a < b THEN a ELSE b
Take(s, n) == SubSeq(s, 1, n)
Drop(s, n) == SubSeq(s, n + 1, Len(s))
RemoveAt(s, k) == SubSeq(s, 1, k - 1) \o SubSeq(s, k + 1, Len(s))

\* ------------------------------------------------- inputs of the calls
Colors == { << 10, 20, 30 >>, << 40, 50, 60 >> }
\* The default CollisionConfig of Start (l.440-447) and a user's own.
DefaultCollisionConfig == << 1, 128, 128, 128, 128, 96 >>
UserCollisionConfig    == << 1, 64, 64, 80, 80, 96 >>
\* Values of s.seq the run may start from: a fresh driver, and a driver
\* that has completed 254 writes (so that the uint8 wraps within the run).
InitSeqs == { 0, 254 }

\* Read errors the transport reports in one run.
MaxReadErrors == 1
\* Largest of the consecutive sequence values the codec is tried on.
MaxCodecSeq == 8

NoPacket == [ header |-> << >>, body |-> << >>, checksum |-> 0 ]

\* ------------------------------------------------------ the transport
\* Frames the device may put on the line.  A response frame is
\* SOP1, SOP2 (0xFF sync / 0xFE async), a code, a sequence byte (sync) and
\* a length byte counting the payload and the checksum.
RespFrame(marker, code, s, payload) ==
    LET head == << code, s, (Len(payload) + 1) % ByteMod >> \o payload
    IN  << SOP, marker >> \o head \o << calculateChecksum(head) >>

\* The same frame with its last payload byte (or its length byte) damaged.
Corrupt(f) == [ f EXCEPT ![Len(f) - 1] = (f[Len(f) - 1] + 1) % ByteMod ]

\* Sequence bytes of the frames with command id cid that the device has
\* received in full.
SeenSeqs(cids) ==
    { wire[k].frame[5] :
        k \in { j \in 1..Len(wire) : wire[j].res = "ok" /\ wire[j].frame[4] \in cids } }

\* What the device answers to the commands it received: a color reply to a
\* color request, a bare acknowledgement to any other command, each carrying
\* the command's sequence byte.
ReplyFrames ==
    { RespFrame(SyncMarker, 0, s, c) : s \in SeenSeqs({ CidGetRGB }), c \in Colors }
    \cup { RespFrame(SyncMarker, 0, s, << >>) :
             s \in SeenSeqs({ CidSetRGB, CidCollisionDetection, CidStopOnDisconnect }) }

\* What else may arrive: an async notification, a bare acknowledgement,
\* damaged frames, a frame with an unknown second byte.
UnsolicitedFrames ==
    { RespFrame(AsyncMarker, 1, 0, << 3 >>),
      RespFrame(SyncMarker, 0, 0, << >>),
      Corrupt(RespFrame(AsyncMarker, 1, 0, << 3 >>)),
      Corrupt(RespFrame(SyncMarker, 0, 0, << 10, 20, 30 >>)),
      RespFrame(253, 0, 0, << 7 >>) }

\* ----------------------------------------------------- initial state
CallerIdle == [ pc |-> "idle", pkt |-> NoPacket, todo |-> << >>, sync |-> FALSE,
                i |-> 0, snap |-> << >>, key |-> 0 ]
TxIdle == [ pc |-> "recv", pkt |-> NoPacket ]
SwIdle == [ pc |-> "recv", resp |-> << >>, snap |-> << >> ]
RxIdle == [ pc |-> "header", buf |-> << >>, header |-> << >>, data |-> << >>,
            snap |-> << >> ]

DispIdle  == [ pc |-> "sleep", snap |-> << >>, tick |-> 0, start |-> << >> ]
HaltIdle  == [ pc |-> "idle", from |-> 0, ret |-> 0 ]
TimerIdle == [ pc |-> "idle", pkt |-> NoPacket, todo |-> << >>, n |-> 0 ]

\* NewSpheroDriver (l.303-311): empty channels and buffers, no worker yet.
Init ==
    /\ seq \in InitSeqs
    /\ okBefore = seq
    /\ packetChannel = << >>
    /\ responseChannel = << >>
    /\ syncResponse = << >>
    /\ asyncResponse = << >>
    /\ cdConfigured = FALSE
    /\ started = FALSE
    /\ caller = CallerIdle
    /\ txw = TxIdle
    /\ sw = SwIdle
    /\ rx = RxIdle
    /\ inStream = << >>
    /\ wire = << >>
    /\ errorEvents = << >>
    /\ enqLog = << >>
    /\ rxLog = << >>
    /\ syncLog = << >>
    /\ asyncLog = << >>
    /\ results = << >>
    /\ nCalls = 0
    /\ nSent = 0
    /\ nWriteFailures = 0
    /\ nReadErrors = 0
    /\ disp = DispIdle
    /\ halt = HaltIdle
    /\ timer = TimerIdle
    /\ connected = TRUE
    /\ dispLog = << >>
    /\ sentLog = << >>
    /\ callLog = << >>

\* The driver once Start has returned and the transmit worker has written
\* Start's two frames: every worker is idle, nothing is queued.
StartWire(s0) ==
    << [ frame |-> Serialize(craftPacket(DefaultCollisionConfig, DidSphero,
                                         CidCollisionDetection, s0)),
         n |-> 13, res |-> "ok" ],
       [ frame |-> Serialize(craftPacket(<< 0, 0, 0, 1 >>, DidSphero,
                                         CidStopOnDisconnect, (s0 + 1) % ByteMod)),
         n |-> 11, res |-> "ok" ] >>

Running ==
    /\ okBefore \in InitSeqs
    /\ seq = (okBefore + 2) % ByteMod
    /\ packetChannel = << >>
    /\ responseChannel = << >>
    /\ syncResponse = << >>
    /\ asyncResponse = << >>
    /\ cdConfigured = TRUE
    /\ started = TRUE
    /\ caller = CallerIdle
    /\ txw = TxIdle
    /\ sw = SwIdle
    /\ rx = RxIdle
    /\ inStream = << >>
    /\ wire = StartWire(okBefore)
    /\ errorEvents = << >>
    /\ enqLog = << craftPacket(DefaultCollisionConfig, DidSphero,
                               CidCollisionDetection, okBefore),
                   craftPacket(<< 0, 0, 0, 1 >>, DidSphero, CidStopOnDisconnect,
                               (okBefore + 1) % ByteMod) >>
    /\ rxLog = << >>
    /\ syncLog = << >>
    /\ asyncLog = << >>
    /\ results = << >>
    /\ nCalls = 1
    /\ nSent = 0
    /\ nWriteFailures = 0
    /\ nReadErrors = 0
    /\ disp = DispIdle
    /\ halt = HaltIdle
    /\ timer = TimerIdle
    /\ connected = TRUE
    /\ dispLog = << >>
    /\ sentLog = << >>
    /\ callLog = << [ op |-> "Start", args |-> << >>, from |-> 0, cd |-> FALSE ] >>

\* The driver before Start, the host having queued SetRGB commands until
\* packetChannel is full: no worker runs yet.
Congested ==
    /\ seq \in InitSeqs
    /\ okBefore = seq
    /\ packetChannel =
           [ k \in 1..ChanCap |->
               craftPacket(<< 10, 20, 30, 1 >>, DidSphero, CidSetRGB, seq) ]
    /\ enqLog = packetChannel
    /\ nCalls = ChanCap
    /\ responseChannel = << >>
    /\ syncResponse = << >>
    /\ asyncResponse = << >>
    /\ cdConfigured = FALSE
    /\ started = FALSE
    /\ caller = CallerIdle
    /\ txw = TxIdle
    /\ sw = SwIdle
    /\ rx = RxIdle
    /\ inStream = << >>
    /\ wire = << >>
    /\ errorEvents = << >>
    /\ rxLog = << >>
    /\ syncLog = << >>
    /\ asyncLog = << >>
    /\ results = << >>
    /\ nSent = 0
    /\ nWriteFailures = 0
    /\ nReadErrors = 0
    /\ disp = DispIdle
    /\ halt = HaltIdle
    /\ timer = TimerIdle
    /\ connected = TRUE
    /\ dispLog = << >>
    /\ sentLog = << >>
    /\ callLog = [ k \in 1..ChanCap |->
                      [ op |-> "SetRGB", args |-> << >>, from |-> k - 1, cd |-> FALSE ] ]

\* The running driver with a collision notification and then a streaming
\* sample stored in the async buffer, the dispatcher asleep.
NotifiedFrames ==
    << RespFrame(AsyncMarker, IdCollision, 0,
                 << 1 >> \o [ k \in 1..(CollisionDlen - 2) |-> 0 ]),
       RespFrame(AsyncMarker, IdStreaming, 0,
                 << 2 >> \o [ k \in 1..(StreamingFrameLen - RespHeaderLen - 2) |-> 0 ]) >>

Notified ==
    /\ okBefore \in InitSeqs
    /\ seq = (okBefore + 2) % ByteMod
    /\ packetChannel = << >>
    /\ responseChannel = << >>
    /\ syncResponse = << >>
    /\ asyncResponse = NotifiedFrames
    /\ cdConfigured = TRUE
    /\ started = TRUE
    /\ caller = CallerIdle
    /\ txw = TxIdle
    /\ sw = SwIdle
    /\ rx = RxIdle
    /\ inStream = << >>
    /\ wire = StartWire(okBefore)
    /\ errorEvents = << >>
    /\ enqLog = << craftPacket(DefaultCollisionConfig, DidSphero,
                               CidCollisionDetection, okBefore),
                   craftPacket(<< 0, 0, 0, 1 >>, DidSphero, CidStopOnDisconnect,
                               (okBefore + 1) % ByteMod) >>
    /\ rxLog = NotifiedFrames
    /\ syncLog = << >>
    /\ asyncLog = NotifiedFrames
    /\ results = << >>
    /\ nCalls = 1
    /\ nSent = 0
    /\ nWriteFailures = 0
    /\ nReadErrors = 0
    /\ disp = DispIdle
    /\ halt = HaltIdle
    /\ timer = TimerIdle
    /\ connected = TRUE
    /\ dispLog = << >>
    /\ sentLog = NotifiedFrames
    /\ callLog = << [ op |-> "Start", args |-> << >>, from |-> 0, cd |-> FALSE ] >>

callerVars == << caller, results, nCalls, cdConfigured, started, enqLog, callLog >>
txVars     == << txw, wire, errorEvents, nWriteFailures >>
rxVars     == << rx, inStream, rxLog, asyncLog, nSent, nReadErrors, sentLog >>
swVars     == << sw, syncLog >>
dispVars   == << disp, dispLog >>
haltVars   == << halt, timer, connected >>

\* ------------------------------------------------------ the command API
\* History of the calls: the operation, its arguments, the number of packets
\* enqueued and the value of cdConfigured when it was entered.
LogCall(op, args) ==
    callLog' = Append(callLog, [ op |-> op, args |-> args, from |-> Len(enqLog),
                                 cd |-> cdConfigured ])

\* A fire-and-forget command: craftPacket reads s.seq, then the goroutine
\* stands at the channel send.
Command(body, did, cid) ==
    /\ caller.pc = "idle"
    /\ nCalls < MaxCalls
    /\ nCalls' = nCalls + 1
    /\ caller' = [ CallerIdle EXCEPT !.pc = "send",
                                     !.pkt = craftPacket(body, did, cid, seq) ]

\* SetRGB(r, g, b) (l.467-469).
SetRGB ==
    /\ \E c \in Colors : Command(c \o << 1 >>, DidSphero, CidSetRGB)
    /\ LogCall("SetRGB", << >>)
    /\ UNCHANGED << seq, okBefore, dispVars, haltVars, packetChannel, responseChannel, syncResponse,
                    asyncResponse, cdConfigured, started, results, enqLog,
                    txVars, rxVars, swVars >>

\* ConfigureCollisionDetection(cc) called by the host (l.540-543).
ConfigureCollisionDetection ==
    /\ Command(UserCollisionConfig, DidSphero, CidCollisionDetection)
    /\ cdConfigured' = TRUE
    /\ LogCall("ConfigureCollisionDetection", UserCollisionConfig)
    /\ UNCHANGED << seq, okBefore, dispVars, haltVars, packetChannel, responseChannel, syncResponse,
                    asyncResponse, started, results, enqLog,
                    txVars, rxVars, swVars >>

\* StartFrames for a Start that configures collision detection whatever the
\* flag says (l.438 without its test).
StartFramesAlways(configured) ==
    << [ body |-> DefaultCollisionConfig, did |-> DidSphero,
         cid |-> CidCollisionDetection ],
       [ body |-> << 0, 0, 0, 1 >>, did |-> DidSphero,
         cid |-> CidStopOnDisconnect ] >>

\* The frames Start has still to send once the workers are spawned
\* (l.438-449): the default collision configuration unless one was applied,
\* then the disconnect-safety frame.
StartFrames(configured) ==
    (IF configured THEN << >>
     ELSE << [ body |-> DefaultCollisionConfig, did |-> DidSphero,
               cid |-> CidCollisionDetection ] >>)
    \o << [ body |-> << 0, 0, 0, 1 >>, did |-> DidSphero,
            cid |-> CidStopOnDisconnect ] >>

\* Start (l.385-452): spawns the four workers; the host calls it once.
Start ==
    /\ caller.pc = "idle"
    /\ ~started
    /\ nCalls < MaxCalls
    /\ nCalls' = nCalls + 1
    /\ started' = TRUE
    /\ cdConfigured' = TRUE
    /\ caller' = [ CallerIdle EXCEPT !.pc = "craft",
                                     !.todo = StartFrames(cdConfigured) ]
    /\ LogCall("Start", << >>)
    /\ UNCHANGED << seq, okBefore, dispVars, haltVars, packetChannel, responseChannel, syncResponse,
                    asyncResponse, results, enqLog, txVars, rxVars, swVars >>

\* Start called on a driver that was started before (l.385-452).  It spawns
\* four more workers; they serve the same channels and buffers, and what the
\* calling goroutine enqueues does not depend on which worker takes it, so
\* the workers of the model stand for both sets here.
StartAgain ==
    /\ caller.pc = "idle"
    /\ started
    /\ nCalls < MaxCalls
    /\ nCalls' = nCalls + 1
    /\ cdConfigured' = TRUE
    /\ caller' = [ CallerIdle EXCEPT !.pc = "craft",
                                     !.todo = StartFrames(cdConfigured) ]
    /\ LogCall("Start", << >>)
    /\ UNCHANGED << seq, okBefore, dispVars, haltVars, packetChannel, responseChannel,
                    syncResponse, asyncResponse, started, results, enqLog,
                    txVars, rxVars, swVars >>

\* The next craftPacket of a call that sends several frames.
CallerCraft ==
    /\ caller.pc = "craft"
    /\ LET f == Head(caller.todo)
       IN  caller' = [ caller EXCEPT !.pc = "send",
                                     !.pkt = craftPacket(f.body, f.did, f.cid, seq),
                                     !.todo = Tail(caller.todo) ]
    /\ UNCHANGED << seq, okBefore, dispVars, haltVars, callLog, packetChannel, responseChannel, syncResponse,
                    asyncResponse, cdConfigured, started, results, enqLog, nCalls,
                    txVars, rxVars, swVars >>

\* s.packetChannel <- packet: blocks while the channel is full.
CallerSend ==
    /\ caller.pc = "send"
    /\ Len(packetChannel) < ChanCap
    /\ packetChannel' = Append(packetChannel, caller.pkt)
    /\ enqLog' = Append(enqLog, caller.pkt)
    /\ caller' = IF caller.sync THEN [ caller EXCEPT !.pc = "poll", !.i = 0 ]
                 ELSE IF caller.todo # << >> THEN [ caller EXCEPT !.pc = "craft" ]
                 ELSE CallerIdle
    /\ UNCHANGED << seq, okBefore, dispVars, haltVars, callLog, responseChannel, syncResponse, asyncResponse,
                    cdConfigured, started, results, nCalls,
                    txVars, rxVars, swVars >>

\* StreamingDivisor with the upper test of l.508 as freq > SensorFrequencyMax.
StreamingDivisorExclusive(freq) ==
    IF freq = 0 \/ freq > SensorFrequencyMax
    THEN SensorFrequencyMax \div SensorFrequencyDefault
    ELSE SensorFrequencyMax \div freq

\* n of SetDataStreaming (l.506-513), a uint16.
StreamingDivisor(freq) ==
    IF freq = 0 \/ freq >= SensorFrequencyMax
    THEN SensorFrequencyMax \div SensorFrequencyDefault
    ELSE SensorFrequencyMax \div freq

\* StreamingFrames without the coercion of l.514-516.
StreamingFramesAsGiven(frames) == frames

\* frames of SetDataStreaming after l.514-516.
StreamingFrames(frames) == IF frames = 0 THEN 1 ELSE frames

\* cmd of SetDataStreaming (l.518-524).
DataStreamingSetting(freq, frames, mask, count, mask2) ==
    [ N |-> StreamingDivisor(freq), M |-> StreamingFrames(frames),
      Pcnt |-> count, Mask |-> mask, Mask2 |-> mask2 ]

\* A uint16 and a uint32, most significant byte first (binary.BigEndian).
BigEndian16(v) == << (v \div ByteMod) % ByteMod, v % ByteMod >>
BigEndian32(v) == BigEndian16((v \div Uint16Mod) % Uint16Mod) \o BigEndian16(v % Uint16Mod)

\* binary.Write(buf, binary.BigEndian, cmd) (l.526-527): the fields of
\* DataStreamingSetting in the order the type declares them.  The type is
\* declared outside the files at hand; the order taken here is the one of
\* the device's streaming command: N, M, MASK, PCNT, MASK2.
BinaryWriteSetting(cmd) ==
    BigEndian16(cmd.N) \o BigEndian16(cmd.M) \o BigEndian32(cmd.Mask)
        \o << cmd.Pcnt >> \o BigEndian32(cmd.Mask2)

\* The arguments (freq, frames, mask, count, mask2) the host calls
\* SetDataStreaming with.
StreamingArgs ==
    { << 0, 0, 58720256, 0, 3 >>, << SensorFrequencyDefault, 1, 58720256, 0, 3 >>,
      << 1, 1, 0, 0, 0 >>, << 100, 2, 0, 5, 0 >>,
      << SensorFrequencyMax - 1, 1, 0, 0, 0 >>, << SensorFrequencyMax, 1, 0, 0, 0 >>,
      << Uint16Mod - 1, 0, 0, 0, 0 >> }

\* SetDataStreaming(freq, frames, mask, count, mask2) (l.505-530).
SetDataStreaming ==
    /\ \E a \in StreamingArgs :
           /\ Command(BinaryWriteSetting(DataStreamingSetting(a[1], a[2], a[3], a[4], a[5])),
                      DidSphero, CidSetDataStreaming)
           /\ LogCall("SetDataStreaming", a)
    /\ UNCHANGED << seq, okBefore, dispVars, haltVars, packetChannel, responseChannel,
                    syncResponse, asyncResponse, cdConfigured, started, results,
                    enqLog, txVars, rxVars, swVars >>

\* The body of Roll(speed, heading) (l.501).
RollBody(speed, heading) ==
    << speed, (heading \div ByteMod) % ByteMod, heading % ByteMod, 1 >>

\* Roll(speed, heading) (l.500-502).
Roll ==
    /\ \E a \in { << 0, 0 >>, << 100, 300 >> } :
           /\ Command(RollBody(a[1], a[2]), DidSphero, CidRoll)
           /\ LogCall("Roll", a)
    /\ UNCHANGED << seq, okBefore, dispVars, haltVars, packetChannel, responseChannel,
                    syncResponse, asyncResponse, cdConfigured, started, results,
                    enqLog, txVars, rxVars, swVars >>

\* The setting Stop hands to the device (l.534):
\* SetDataStreaming(SensorFrequencyDefault, 0, 0, 0, 0).
StopSetting == DataStreamingSetting(SensorFrequencyDefault, 0, 0, 0, 0)

\* What is left of Stop once SetDataStreaming has crafted its packet: the
\* Roll(0, 0) of l.535.
StopRest == << [ body |-> RollBody(0, 0), did |-> DidSphero, cid |-> CidRoll ] >>

\* Stop (l.533-536) called by the host: SetDataStreaming crafts its packet
\* and stands at the channel send; Roll follows.
Stop ==
    /\ caller.pc = "idle"
    /\ nCalls < MaxCalls
    /\ nCalls' = nCalls + 1
    /\ caller' = [ CallerIdle EXCEPT
                       !.pc = "send",
                       !.pkt = craftPacket(BinaryWriteSetting(StopSetting), DidSphero,
                                           CidSetDataStreaming, seq),
                       !.todo = StopRest ]
    /\ LogCall("Stop", StopSetting)
    /\ UNCHANGED << seq, okBefore, dispVars, haltVars, packetChannel, responseChannel,
                    syncResponse, asyncResponse, cdConfigured, started, results,
                    enqLog, txVars, rxVars, swVars >>

\* ------------------------------------------------------------ shutdown
\* SpheroAdaptor.Disconnect (sphero_adaptor.go l.59-65), called by the host
\* outside Halt: the transport is closed and the adaptor is no longer
\* connected.
Disconnect ==
    /\ caller.pc = "idle"
    /\ halt.pc # "sleeping"
    /\ connected
    /\ connected' = FALSE
    /\ UNCHANGED << seq, okBefore, dispVars, halt, timer, packetChannel,
                    responseChannel, syncResponse, asyncResponse, callerVars,
                    txVars, rxVars, swVars >>

\* Halt (l.456-464) is entered by the host goroutine: when the adaptor is
\* connected it hands the Stop callback to gobot.Every and sleeps for a
\* second (l.458-461); otherwise it returns at once.
Halt ==
    /\ caller.pc = "idle"
    /\ halt.pc = "idle"
    /\ halt' = [ pc   |-> IF connected THEN "sleeping" ELSE "returned",
                 from |-> Len(enqLog), ret |-> Len(enqLog) ]
    /\ UNCHANGED << seq, okBefore, dispVars, timer, connected, packetChannel,
                    responseChannel, syncResponse, asyncResponse, callerVars,
                    txVars, rxVars, swVars >>

\* The sleep of l.461 ends and Halt returns (l.463).  Halt keeps no handle
\* on the timer and does not wait for a callback that is running.
HaltReturn ==
    /\ halt.pc = "sleeping"
    /\ halt' = [ halt EXCEPT !.pc = "returned", !.ret = Len(enqLog) ]
    /\ UNCHANGED << seq, okBefore, dispVars, timer, connected, packetChannel,
                    responseChannel, syncResponse, asyncResponse, callerVars,
                    txVars, rxVars, swVars >>

\* gobot.Every fires and runs the callback of l.458-460 on a goroutine of
\* its own: Stop begins, SetDataStreaming crafts its packet and stands at the
\* channel send.  gobot.Every is defined outside the files at hand; it is
\* taken to fire at its cadence during the second Halt sleeps, one callback
\* at a time.
TimerTick ==
    /\ halt.pc = "sleeping"
    /\ timer.pc = "idle"
    /\ timer.n < MaxTicks
    /\ timer' = [ pc   |-> "send",
                  pkt  |-> craftPacket(BinaryWriteSetting(StopSetting), DidSphero,
                                       CidSetDataStreaming, seq),
                  todo |-> StopRest,
                  n    |-> timer.n + 1 ]
    /\ UNCHANGED << seq, okBefore, dispVars, halt, connected, packetChannel,
                    responseChannel, syncResponse, asyncResponse, callerVars,
                    txVars, rxVars, swVars >>

\* The callback's next craftPacket: Roll(0, 0) of Stop (l.535).
TimerCraft ==
    /\ timer.pc = "craft"
    /\ LET f == Head(timer.todo)
       IN  timer' = [ timer EXCEPT !.pc = "send",
                                   !.pkt = craftPacket(f.body, f.did, f.cid, seq),
                                   !.todo = Tail(timer.todo) ]
    /\ UNCHANGED << seq, okBefore, dispVars, halt, connected, packetChannel,
                    responseChannel, syncResponse, asyncResponse, callerVars,
                    txVars, rxVars, swVars >>

\* The callback's s.packetChannel <- packet: blocks while the channel is
\* full.
TimerSend ==
    /\ timer.pc = "send"
    /\ Len(packetChannel) < ChanCap
    /\ packetChannel' = Append(packetChannel, timer.pkt)
    /\ enqLog' = Append(enqLog, timer.pkt)
    /\ timer' = IF timer.todo # << >> THEN [ timer EXCEPT !.pc = "craft" ]
                ELSE [ TimerIdle EXCEPT !.n = timer.n ]
    /\ UNCHANGED << seq, okBefore, dispVars, halt, connected, responseChannel,
                    syncResponse, asyncResponse, caller, results, nCalls,
                    cdConfigured, started, callLog, txVars, rxVars, swVars >>

\* ------------------------------------------- the synchronous request path
\* The test of getSyncResponse's scan (l.575).
Matches(entry, pkt) == entry[4] = pkt.header[5] /\ Len(entry) > MinReplyLen

\* The first key of the scan that matches, 0 when none does (l.574-575).
FirstMatch(buf, pkt) ==
    IF \E k \in 1..Len(buf) : Matches(buf[k], pkt)
    THEN CHOOSE k \in 1..Len(buf) :
             /\ Matches(buf[k], pkt)
             /\ \A j \in 1..(k - 1) : ~Matches(buf[j], pkt)
    ELSE 0

\* MorePolls with the loop bound off by one (i <= 500): one poll too many.
MorePollsInclusive(i) == i <= PollBudget

\* The loop condition of getSyncResponse (l.573): i < 500.
MorePolls(i) == i < PollBudget

\* The entry getSyncResponse takes out of the buffer on a match at key
\* (l.577): the last one.
PoppedIndex(buf, key) == Len(buf)

\* GetRGB's value from the frame getSyncResponse returned (l.474-477).
RGBOf(buf) ==
    IF Len(buf) = RGBReplyLen THEN << buf[6], buf[7], buf[8] >> ELSE << >>

\* GetRGB (l.472-473): craftPacket, then getSyncResponse's channel send.
GetRGB ==
    /\ caller.pc = "idle"
    /\ nCalls < MaxCalls
    /\ Len(results) < MaxSyncCalls
    /\ nCalls' = nCalls + 1
    /\ caller' = [ CallerIdle EXCEPT !.pc = "send", !.sync = TRUE,
                       !.pkt = craftPacket(<< >>, DidSphero, CidGetRGB, seq) ]
    /\ LogCall("GetRGB", << >>)
    /\ UNCHANGED << seq, okBefore, dispVars, haltVars, packetChannel, responseChannel, syncResponse,
                    asyncResponse, cdConfigured, started, results, enqLog,
                    txVars, rxVars, swVars >>

\* One poll that finds a match: the scan of l.574-575 succeeds and the
\* goroutine loads s.syncResponse for the statement of l.577.
GsrMatch ==
    /\ caller.pc = "poll"
    /\ MorePolls(caller.i)
    /\ FirstMatch(syncResponse, caller.pkt) # 0
    /\ caller' = [ caller EXCEPT !.pc = "pop", !.snap = syncResponse,
                                 !.key = FirstMatch(syncResponse, caller.pkt) ]
    /\ UNCHANGED << seq, okBefore, dispVars, haltVars, callLog, packetChannel, responseChannel, syncResponse,
                    asyncResponse, cdConfigured, started, results, enqLog, nCalls,
                    txVars, rxVars, swVars >>

\* One poll that finds nothing, and the sleep of l.581.
GsrMiss ==
    /\ caller.pc = "poll"
    /\ MorePolls(caller.i)
    /\ FirstMatch(syncResponse, caller.pkt) = 0
    /\ caller' = [ caller EXCEPT !.i = caller.i + 1 ]
    /\ UNCHANGED << seq, okBefore, dispVars, haltVars, callLog, packetChannel, responseChannel, syncResponse,
                    asyncResponse, cdConfigured, started, results, enqLog, nCalls,
                    txVars, rxVars, swVars >>

\* The store of l.577 and the return of l.578; GetRGB returns RGBOf(resp).
GsrPop ==
    /\ caller.pc = "pop"
    /\ LET at   == PoppedIndex(caller.snap, caller.key)
           resp == caller.snap[at]
           rest == RemoveAt(caller.snap, at)
       IN  /\ syncResponse' = rest
           /\ results' = Append(results,
                  [ req |-> caller.pkt, resp |-> resp, rgb |-> RGBOf(resp),
                    key |-> caller.key, before |-> caller.snap, after |-> rest,
                    polls |-> caller.i + 1 ])
    /\ caller' = CallerIdle
    /\ UNCHANGED << seq, okBefore, dispVars, haltVars, callLog, packetChannel, responseChannel, asyncResponse,
                    cdConfigured, started, enqLog, nCalls,
                    txVars, rxVars, swVars >>

\* The budget is spent: return []byte{} (l.584).
GsrTimeout ==
    /\ caller.pc = "poll"
    /\ ~MorePolls(caller.i)
    /\ results' = Append(results,
           [ req |-> caller.pkt, resp |-> << >>, rgb |-> RGBOf(<< >>),
             key |-> 0, before |-> syncResponse, after |-> syncResponse,
             polls |-> caller.i ])
    /\ caller' = CallerIdle
    /\ UNCHANGED << seq, okBefore, dispVars, haltVars, callLog, packetChannel, responseChannel, syncResponse,
                    asyncResponse, cdConfigured, started, enqLog, nCalls,
                    txVars, rxVars, swVars >>

\* -------------------------------------------------- the transmit worker
\* ChanHead for a channel that hands out its newest element first.
ChanNewest(ch) == ch[Len(ch)]

\* What a receive takes from a channel: its oldest element.
ChanHead(ch) == Head(ch)

\* packet := <-s.packetChannel (l.388).
TxRecv ==
    /\ started
    /\ txw.pc = "recv"
    /\ packetChannel # << >>
    /\ txw' = [ pc |-> "write", pkt |-> ChanHead(packetChannel) ]
    /\ packetChannel' = Tail(packetChannel)
    /\ UNCHANGED << seq, okBefore, dispVars, haltVars, responseChannel, syncResponse, asyncResponse,
                    wire, errorEvents, nWriteFailures, callerVars, rxVars, swVars >>

\* WriteFails without the length test of l.602: a short write passes.
WriteFailsOnErrorOnly(buflen, length, err) == err

\* write's verdict on what sp.Write returned (l.600-604): an error when the
\* transport reports one or wrote another number of bytes than the frame has.
WriteFails(buflen, length, err) == err \/ length # buflen

\* SeqAfterWrite with s.seq++ moved before the error returns of write.
SeqAdvancesAlways(s, failed) == (s + 1) % ByteMod

\* s.seq after write (l.605): s.seq++ on a uint8, only when write succeeds.
SeqAfterWrite(s, failed) == IF failed THEN s ELSE (s + 1) % ByteMod

\* The events the worker publishes for one write (l.390-392).
ErrorsAfterWrite(events, frame, failed) ==
    IF failed THEN Append(events, frame) ELSE events

\* write(packet) with the transport answering (length, err), and the
\* worker's handling of the result (l.389-392, l.596-607).
TxWriteResult(length, err) ==
    LET buf    == Serialize(txw.pkt)
        failed == WriteFails(Len(buf), length, err)
    IN  /\ txw.pc = "write"
        /\ wire' = Append(wire, [ frame |-> buf, n |-> length,
                                  res |-> IF err THEN "err"
                                          ELSE IF length # Len(buf) THEN "short"
                                          ELSE "ok" ])
        /\ seq' = SeqAfterWrite(seq, failed)
        /\ errorEvents' = ErrorsAfterWrite(errorEvents, buf, failed)
        /\ nWriteFailures' = nWriteFailures + (IF failed THEN 1 ELSE 0)
        /\ txw' = TxIdle
        /\ UNCHANGED << okBefore, dispVars, haltVars, packetChannel, responseChannel, syncResponse,
                        asyncResponse, callerVars, rxVars, swVars >>

\* The transport takes the whole frame.
TxWriteOk == TxWriteResult(Len(Serialize(txw.pkt)), FALSE)

\* The transport reports an I/O error.
TxWriteErr ==
    /\ nWriteFailures < MaxWriteFailures
    /\ TxWriteResult(0, TRUE)

\* The transport takes only part of the frame and reports no error.
TxWriteShort ==
    /\ nWriteFailures < MaxWriteFailures
    /\ \E n \in { 0, Len(Serialize(txw.pkt)) - 1 } : TxWriteResult(n, FALSE)

\* ----------------------------------------------- the sync-buffer writer
\* response := <-s.responseChannel (l.398) and the load of s.syncResponse
\* for the append of l.399.
SwRecv ==
    /\ started
    /\ sw.pc = "recv"
    /\ responseChannel # << >>
    /\ sw' = [ pc |-> "store", resp |-> ChanHead(responseChannel), snap |-> syncResponse ]
    /\ responseChannel' = Tail(responseChannel)
    /\ UNCHANGED << seq, okBefore, dispVars, haltVars, packetChannel, syncResponse, asyncResponse,
                    syncLog, callerVars, txVars, rxVars >>

\* The store of l.399: s.syncResponse = append(<what was loaded>, response).
SwStore ==
    /\ sw.pc = "store"
    /\ syncResponse' = Append(sw.snap, sw.resp)
    /\ syncLog' = Append(syncLog, sw.resp)
    /\ sw' = SwIdle
    /\ UNCHANGED << seq, okBefore, dispVars, haltVars, packetChannel, responseChannel, asyncResponse,
                    callerVars, txVars, rxVars >>

\* --------------------------------------------------- the receive framer
\* The device puts frame f on the line.
Deliver(f) ==
    /\ nSent < MaxInFrames
    /\ inStream' = inStream \o f
    /\ nSent' = nSent + 1
    /\ sentLog' = Append(sentLog, f)
    /\ UNCHANGED << seq, okBefore, dispVars, haltVars, packetChannel, responseChannel, syncResponse,
                    asyncResponse, rx, rxLog, asyncLog, nReadErrors,
                    callerVars, txVars, swVars >>

\* The device answers a command it received.
DeviceReply == \E f \in ReplyFrames : Deliver(f)

\* The device sends a frame of its own.
DeviceSend == \E f \in UnsolicitedFrames : Deliver(f)

\* readHeaderLen for a framer that reads the 6 bytes of a command header.
readCommandHeaderLen == RespHeaderLen + 1

\* readBodyLen taken from header[3], the byte before the length byte.
readBodyLenPreviousByte(header) == header[4]

\* readHeader asks for 5 bytes (l.623); readBody for header[4] (l.407, l.627).
readHeaderLen == RespHeaderLen
readBodyLen(header) == header[5]

\* The length the readNextChunk in progress was called with.
ChunkLen == IF rx.pc = "header" THEN readHeaderLen ELSE readBodyLen(rx.header)

\* ReadRequest for a loop that hands the whole buffer to every Read.
ReadRequestWholeChunk == ChunkLen

\* The number of bytes the next Read of readNextChunk asks for: the length
\* of read[bytesRead:] (l.636).
ReadRequest == ChunkLen - Len(rx.buf)

\* Route without the checksum test of l.410.
RouteUnchecked(data) ==
    IF data[2] = AsyncMarker THEN "async"
    ELSE IF data[2] = SyncMarker THEN "sync"
    ELSE "drop"

\* Where an assembled frame goes (l.409-418).
Route(data) ==
    IF ~ChecksumOK(data) THEN "drop"
    ELSE IF data[2] = AsyncMarker THEN "async"
    ELSE IF data[2] = SyncMarker THEN "sync"
    ELSE "drop"

\* The framer once header and body are in hand (l.408-418): data is
\* header ++ body; an async frame is appended to s.asyncResponse (the load
\* is taken here, the store is RxAsyncStore), a sync frame is sent on
\* s.responseChannel, anything else is dropped.
Assembled(data) ==
    /\ rxLog' = Append(rxLog, data)
    /\ rx' = CASE Route(data) = "async" ->
                    [ RxIdle EXCEPT !.pc = "asyncStore", !.data = data,
                                    !.snap = asyncResponse ]
               [] Route(data) = "sync" ->
                    [ RxIdle EXCEPT !.pc = "syncSend", !.data = data ]
               [] OTHER -> RxIdle

\* The framer after a Read that returned n bytes and no error (l.636-642):
\* readNextChunk loops until the chunk is full; a full header leads to
\* readBody, a full body to the assembled frame.
AfterRead(n) ==
    LET got == rx.buf \o Take(inStream, n)
    IN  /\ inStream' = Drop(inStream, n)
        /\ IF Len(got) < ChunkLen
           THEN /\ rx' = [ rx EXCEPT !.buf = got ]
                /\ UNCHANGED rxLog
           ELSE IF rx.pc = "header"
           THEN IF readBodyLen(got) = 0
                THEN Assembled(got)
                ELSE /\ rx' = [ rx EXCEPT !.pc = "body", !.header = got,
                                          !.buf = << >> ]
                     /\ UNCHANGED rxLog
           ELSE Assembled(rx.header \o got)

\* sp.Read fills the rest of the chunk.
RxReadFull ==
    /\ started
    /\ rx.pc \in { "header", "body" }
    /\ Len(inStream) >= ReadRequest
    /\ AfterRead(ReadRequest)
    /\ UNCHANGED << seq, okBefore, dispVars, haltVars, sentLog, packetChannel, responseChannel, syncResponse,
                    asyncResponse, asyncLog, nSent, nReadErrors,
                    callerVars, txVars, swVars >>

\* sp.Read returns fewer bytes than the chunk still needs.
RxReadPartial ==
    /\ started
    /\ rx.pc \in { "header", "body" }
    /\ \E n \in 1..Min(Len(inStream), ReadRequest - 1) : AfterRead(n)
    /\ UNCHANGED << seq, okBefore, dispVars, haltVars, sentLog, packetChannel, responseChannel, syncResponse,
                    asyncResponse, asyncLog, nSent, nReadErrors,
                    callerVars, txVars, swVars >>

\* sp.Read returns an error: readNextChunk returns nil (l.637-639).  A nil
\* header restarts the loop (l.406); a nil body leaves data = header.
RxReadErr ==
    /\ started
    /\ rx.pc \in { "header", "body" }
    /\ nReadErrors < MaxReadErrors
    /\ nReadErrors' = nReadErrors + 1
    /\ IF rx.pc = "header"
       THEN rx' = RxIdle /\ UNCHANGED rxLog
       ELSE Assembled(rx.header)
    /\ UNCHANGED << seq, okBefore, dispVars, haltVars, sentLog, packetChannel, responseChannel, syncResponse,
                    asyncResponse, inStream, asyncLog, nSent,
                    callerVars, txVars, swVars >>

\* The store of l.415: s.asyncResponse = append(<what was loaded>, data).
RxAsyncStore ==
    /\ rx.pc = "asyncStore"
    /\ asyncResponse' = Append(rx.snap, rx.data)
    /\ asyncLog' = Append(asyncLog, rx.data)
    /\ rx' = RxIdle
    /\ UNCHANGED << seq, okBefore, dispVars, haltVars, sentLog, packetChannel, responseChannel, syncResponse,
                    inStream, rxLog, nSent, nReadErrors,
                    callerVars, txVars, swVars >>

\* s.responseChannel <- data (l.417): blocks while the channel is full.
RxSyncSend ==
    /\ rx.pc = "syncSend"
    /\ Len(responseChannel) < ChanCap
    /\ responseChannel' = Append(responseChannel, rx.data)
    /\ rx' = RxIdle
    /\ UNCHANGED << seq, okBefore, dispVars, haltVars, sentLog, packetChannel, syncResponse, asyncResponse,
                    inStream, rxLog, asyncLog, nSent, nReadErrors,
                    callerVars, txVars, swVars >>

\* --------------------------------------------- the async event dispatcher
\* An async notification as the device frames it: 0xFF, 0xFE, the id code,
\* the two length bytes (most significant first), the payload, the checksum.
\* The first payload byte is a stamp that tells the frames of a run apart.
Notification(code, paylen, stamp) ==
    RespFrame(AsyncMarker, code, 0, << stamp >> \o [ k \in 1..(paylen - 1) |-> 0 ])

\* The notifications of a run: a collision (22 bytes), a streaming sample
\* (90 bytes), each of the two ids with the other's length, and a
\* notification with another id.
NotificationKinds ==
    { << IdCollision, CollisionDlen - 1 >>,
      << IdStreaming, StreamingFrameLen - RespHeaderLen - 1 >>,
      << IdCollision, StreamingFrameLen - RespHeaderLen - 1 >>,
      << IdStreaming, CollisionDlen - 1 >>,
      << 1, 2 >> }

\* The device sends a notification.
DeviceNotify ==
    \E k \in NotificationKinds : Deliver(Notification(k[1], k[2], Len(sentLog) + 1))

\* handleCollisionDetected without the test of l.551.
handleCollisionDetectedUnchecked(data) == "collision"

\* handleCollisionDetected (l.549-558): the topic it publishes on.
handleCollisionDetected(data) ==
    IF Len(data) # CollisionFrameLen \/ data[5] # CollisionDlen THEN "none"
    ELSE "collision"

\* handleDataStreaming without the length test of l.562.
handleDataStreamingAnyLength(data) == "sensordata"

\* handleDataStreaming (l.560-569): the topic it publishes on.
handleDataStreaming(data) ==
    IF Len(data) # StreamingFrameLen THEN "none" ELSE "sensordata"

\* The dispatcher's branch on evt[2] (l.428-432); indexing a frame of fewer
\* than 3 bytes panics.
Dispatch(evt) ==
    IF Len(evt) < 3 THEN "panic"
    ELSE IF evt[3] = IdCollision THEN handleCollisionDetected(evt)
    ELSE IF evt[3] = IdStreaming THEN handleDataStreaming(evt)
    ELSE "none"

\* The sleep of l.434 ends and the dispatcher enters its loop.  (A tick that
\* finds the buffer empty changes nothing and is left out.)
DispTick ==
    /\ started
    /\ disp.pc = "sleep"
    /\ asyncResponse # << >>
    /\ disp' = [ disp EXCEPT !.pc = "drain", !.tick = disp.tick + 1,
                             !.start = asyncResponse ]
    /\ UNCHANGED << seq, okBefore, packetChannel, responseChannel, syncResponse,
                    asyncResponse, dispLog, haltVars, callerVars, txVars, rxVars,
                    swVars >>

\* The test of l.426 succeeds and the right-hand side of l.427 is evaluated:
\* the dispatcher loads s.asyncResponse.  (Only the framer stores to the
\* buffer besides, and it never stores an empty one, so the test and the
\* loads see a non-empty buffer.)
DispLoad ==
    /\ disp.pc = "drain"
    /\ asyncResponse # << >>
    /\ disp' = [ disp EXCEPT !.pc = "store", !.snap = asyncResponse ]
    /\ UNCHANGED << seq, okBefore, packetChannel, responseChannel, syncResponse,
                    asyncResponse, dispLog, haltVars, callerVars, txVars, rxVars,
                    swVars >>

\* The store of l.427 and the handling of evt (l.428-432): evt is the last
\* entry of what was loaded, the buffer becomes what was loaded less evt.
DispStore ==
    /\ disp.pc = "store"
    /\ LET evt == disp.snap[Len(disp.snap)]
       IN  /\ asyncResponse' = Take(disp.snap, Len(disp.snap) - 1)
           /\ dispLog' = Append(dispLog,
                  [ frame |-> evt, topic |-> Dispatch(evt),
                    payload |-> Drop(evt, RespHeaderLen),
                    tick |-> disp.tick, start |-> disp.start ])
           /\ disp' = [ disp EXCEPT !.snap = << >>,
                          !.pc = IF Dispatch(evt) = "panic" THEN "panic" ELSE "drain" ]
    /\ UNCHANGED << seq, okBefore, packetChannel, responseChannel, syncResponse,
                    haltVars, callerVars, txVars, rxVars, swVars >>

\* The test of l.426 fails: the dispatcher sleeps until the next tick.
DispSleep ==
    /\ disp.pc = "drain"
    /\ asyncResponse = << >>
    /\ disp' = [ disp EXCEPT !.pc = "sleep" ]
    /\ UNCHANGED << seq, okBefore, packetChannel, responseChannel, syncResponse,
                    asyncResponse, dispLog, haltVars, callerVars, txVars, rxVars,
                    swVars >>

\* ------------------------------------------------------ specification
\* The whole driver.
Next ==
    \/ SetRGB \/ ConfigureCollisionDetection \/ Start \/ StartAgain
    \/ SetDataStreaming \/ Roll \/ Stop \/ CallerCraft
    \/ CallerSend \/ GetRGB \/ GsrMatch \/ GsrMiss \/ GsrPop \/ GsrTimeout
    \/ TxRecv \/ TxWriteOk \/ TxWriteErr \/ TxWriteShort
    \/ SwRecv \/ SwStore
    \/ DeviceReply \/ DeviceSend \/ DeviceNotify
    \/ RxReadFull \/ RxReadPartial \/ RxReadErr
    \/ RxAsyncStore \/ RxSyncSend
    \/ DispTick \/ DispLoad \/ DispStore \/ DispSleep
    \/ Disconnect \/ Halt \/ HaltReturn \/ TimerTick \/ TimerCraft \/ TimerSend

Spec == Init /\ [][Next]_vars

\* The transmit path: the command API and the transmit worker, the device
\* silent.
NextTx ==
    \/ SetRGB \/ ConfigureCollisionDetection \/ Start \/ CallerCraft
    \/ CallerSend
    \/ TxRecv \/ TxWriteOk \/ TxWriteErr \/ TxWriteShort

SpecTx == Init /\ [][NextTx]_vars

\* The synchronous request path: GetRGB against a device that answers, the
\* transport free of errors and of partial reads.  The run starts from the
\* running driver, or from the driver whose queue the host filled before
\* Start; SpecTx reaches both states.
NextSync ==
    \/ GetRGB \/ CallerSend \/ GsrMatch \/ GsrMiss \/ GsrPop \/ GsrTimeout
    \/ TxRecv \/ TxWriteOk
    \/ SwRecv \/ SwStore
    \/ DeviceReply \/ RxReadFull \/ RxSyncSend

SpecSync == (Running \/ Congested) /\ [][NextSync]_vars

\* The receive path, from the running driver: the framer and the
\* sync-buffer writer, the host silent.
NextRx ==
    \/ DeviceSend \/ RxReadFull \/ RxReadPartial \/ RxReadErr
    \/ RxAsyncStore \/ RxSyncSend
    \/ SwRecv \/ SwStore

SpecRx == Running /\ [][NextRx]_vars

\* The receive path on a failing transport, from the running driver: the
\* device acknowledges the commands of Start and sends frames of its own,
\* and reads may be partial or fail.
NextRxErr ==
    \/ DeviceReply \/ DeviceSend
    \/ RxReadFull \/ RxReadPartial \/ RxReadErr
    \/ RxAsyncStore \/ RxSyncSend
    \/ SwRecv \/ SwStore

SpecRxErr == Running /\ [][NextRxErr]_vars

\* Startup: ConfigureCollisionDetection, SetRGB and Start in any order, Start
\* possibly twice, and the transmit worker on a transport that takes every
\* frame.
NextStart ==
    \/ ConfigureCollisionDetection \/ SetRGB \/ Start \/ StartAgain
    \/ CallerCraft \/ CallerSend
    \/ TxRecv \/ TxWriteOk

SpecStart == Init /\ [][NextStart]_vars

\* Shutdown, from the running driver: the host disconnects the adaptor and
\* calls Halt, in either order, the timer runs Stop, and the transmit worker
\* writes to a transport that may fail.
NextHalt ==
    \/ Disconnect \/ Halt \/ HaltReturn \/ TimerTick \/ TimerCraft \/ TimerSend
    \/ TxRecv \/ TxWriteOk \/ TxWriteErr

SpecHalt == Running /\ [][NextHalt]_vars

\* The motion and streaming commands, from the running driver: Stop,
\* SetDataStreaming and Roll, and the transmit worker on a transport that
\* takes every frame.
NextCmd ==
    \/ Stop \/ SetDataStreaming \/ Roll \/ CallerCraft \/ CallerSend
    \/ TxRecv \/ TxWriteOk

SpecCmd == Running /\ [][NextCmd]_vars

\* The notification path, from the running driver: the device's
\* notifications, the framer and the dispatcher, the host silent and the
\* transport free of errors and of partial reads.
NextDisp ==
    \/ DeviceNotify \/ RxReadFull \/ RxAsyncStore
    \/ DispTick \/ DispLoad \/ DispStore \/ DispSleep

SpecDisp == Running /\ [][NextDisp]_vars

\* The same path, from the running driver that has two notifications stored.
SpecNotified == Notified /\ [][NextDisp]_vars

\* The codec: craftPacket applied to inputs drawn from small sets, the frame
\* written to a transport that echoes it to the framer.
\* The (did, cid, body) the command API hands to craftPacket: GetRGB,
\* SetBackLED, SetHeading, SetRGB, ConfigureCollisionDetection and
\* SetDataStreaming (l.468-542).
CodecInputs ==
    { << DidSphero, CidGetRGB, << >> >>,
      << DidSphero, 33, << 128 >> >>,
      << DidSphero, 1, << 1, 44 >> >>,
      << DidSphero, CidSetRGB, << 10, 20, 30, 1 >> >>,
      << DidSphero, CidCollisionDetection, DefaultCollisionConfig >>,
      << DidSphero, 17, << 0, 42, 0, 1, 0, 0, 0, 0, 0, 0, 0, 0, 0 >> >> }
\* The values of s.seq craftPacket is tried on.
CodecSeqs == 0..MaxCodecSeq \cup { 15, 254, 255 }

Echoed ==
    \E in \in CodecInputs, s \in CodecSeqs :
        LET p == craftPacket(in[3], in[1], in[2], s)
        IN  /\ okBefore = s
            /\ seq = (s + 1) % ByteMod
            /\ enqLog = << p >>
            /\ wire = << [ frame |-> Serialize(p), n |-> Len(Serialize(p)),
                           res |-> "ok" ] >>
            /\ inStream = Serialize(p)
            /\ sentLog = << Serialize(p) >>
    /\ packetChannel = << >>
    /\ responseChannel = << >>
    /\ syncResponse = << >>
    /\ asyncResponse = << >>
    /\ cdConfigured = FALSE
    /\ started = TRUE
    /\ caller = CallerIdle
    /\ txw = TxIdle
    /\ sw = SwIdle
    /\ rx = RxIdle
    /\ errorEvents = << >>
    /\ rxLog = << >>
    /\ syncLog = << >>
    /\ asyncLog = << >>
    /\ results = << >>
    /\ nCalls = 1
    /\ nSent = 1
    /\ nWriteFailures = 0
    /\ nReadErrors = 0
    /\ disp = DispIdle
    /\ halt = HaltIdle
    /\ timer = TimerIdle
    /\ connected = TRUE
    /\ dispLog = << >>
    /\ callLog = << >>

NextCodec ==
    \/ RxReadFull \/ RxReadPartial \/ RxSyncSend \/ SwRecv \/ SwStore

SpecCodec == Echoed /\ [][NextCodec]_vars

\* ============================================================== claims
\* The checksum stated without the codec's operators: the plain sum of the
\* bytes, by halves as above.
RECURSIVE PlainSum(_)
PlainSum(buf) ==
    IF buf = << >> THEN 0
    ELSE IF Len(buf) = 1 THEN buf[1]
    ELSE LET h == Len(buf) \div 2
         IN  PlainSum(SubSeq(buf, 1, h)) + PlainSum(SubSeq(buf, h + 1, Len(buf)))

ExpectedChecksum(bytes) == 255 - (PlainSum(bytes) % 256)

\* A frame whose last byte is the expected checksum of bytes [2 .. last-1].
ExpectedValid(data) ==
    data[Len(data)] = ExpectedChecksum(SubSeq(data, 3, Len(data) - 1))

\* ---- C1
\* C1 (as claimed): whenever getSyncResponse returns a non-empty frame, that
\* frame is the sync-buffer entry its scan matched (same sequence byte as the
\* request, more than 6 bytes), and the buffer it leaves is the buffer it
\* found with exactly that entry removed.
C1_ReturnsMatchedEntry ==
    \A k \in 1..Len(results) :
        LET r == results[k]
        IN  r.resp # << >> =>
                /\ r.resp[4] = r.req.header[5]
                /\ Len(r.resp) > 6
                /\ r.resp = r.before[r.key]
                /\ r.after = RemoveAt(r.before, r.key)

\* ---- C2
\* C2 (as claimed): when a poll of GetRGB finds the 9-byte reply to its own
\* request in the sync buffer, GetRGB returns the bytes 5, 6, 7 of such a
\* reply, whatever else the buffer holds; when no poll finds a match it
\* returns the empty list.
C2_GetRGBReturnsReply ==
    \A k \in 1..Len(results) :
        LET r   == results[k]
            own == { j \in 1..Len(r.before) :
                        /\ Matches(r.before[j], r.req)
                        /\ Len(r.before[j]) = 9 }
        IN  /\ (r.key # 0 /\ own # {}) =>
                   \E j \in own :
                       r.rgb = << r.before[j][6], r.before[j][7], r.before[j][8] >>
            /\ r.key = 0 => r.rgb = << >>

\* ---- C3
\* The steps a call of getSyncResponse takes by itself.
GsrStep == CallerSend \/ GsrMatch \/ GsrMiss \/ GsrPop \/ GsrTimeout

\* The polls of getSyncResponse never exceed the budget, and a call no poll
\* of which matched returns the empty result after exactly the budget.
C3_Budget ==
    /\ caller.i <= PollBudget
    /\ \A k \in 1..Len(results) :
           /\ results[k].polls <= PollBudget
           /\ results[k].key = 0 =>
                  /\ results[k].resp = << >>
                  /\ results[k].polls = PollBudget

InHand == IF txw.pc = "write" THEN << txw.pkt >> ELSE << >>

\* C4: the write attempts are, in order and one each, the packets placed on
\* packetChannel: attempt k is enqueued packet k, and the packets not yet
\* attempted are the one the worker holds followed by the queue.
C4_FifoOneAttemptEach ==
    /\ Len(wire) <= Len(enqLog)
    /\ \A k \in 1..Len(wire) : wire[k].frame = Serialize(enqLog[k])
    /\ SubSeq(enqLog, Len(wire) + 1, Len(enqLog)) = InHand \o packetChannel

\* Three attempts were made, on different frames, one of which failed.
C4_Witness ==
    /\ Len(wire) >= 3
    /\ wire[1].frame # wire[2].frame
    /\ wire[2].frame # wire[3].frame
    /\ \E k \in 1..Len(wire) : wire[k].res # "ok"

\* ---- C5
NumOk(w) == Cardinality({ k \in 1..Len(w) : w[k].res = "ok" })

\* C5: s.seq is the number of writes completed in full so far, modulo 256
\* (okBefore of them before the run); failed writes and craftPacket do not
\* move it.
C5_SeqCountsWrites == seq = (okBefore + NumOk(wire)) % 256

\* The counter wrapped from 255 to 0 in a run that also saw a failed write
\* and a packet crafted and still queued.
C5_Witness ==
    /\ okBefore = 254
    /\ seq = 0
    /\ NumOk(wire) = 2
    /\ Len(wire) = 3
    /\ Len(enqLog) > 3

\* ---- C6
IsFailure(w) == w.res # "ok"
FrameOf(w) == w.frame
MapFrames(ws) == [ k \in 1..Len(ws) |-> FrameOf(ws[k]) ]

\* C6: the error topic carries exactly one event per failed write, in
\* order; a failed frame is not written again (attempt k is always enqueued
\* packet k); the worker takes the next queued packet whenever one waits;
\* and a write changes nothing in the calling goroutine.
C6_FailedWriteReported ==
    /\ [](/\ errorEvents = MapFrames(SelectSeq(wire, IsFailure))
          /\ \A k \in 1..Len(wire) : wire[k].frame = Serialize(enqLog[k])
          /\ (started /\ txw.pc = "recv" /\ packetChannel # << >>) => ENABLED TxRecv
          /\ txw.pc = "write" => ENABLED TxWriteOk)
    /\ [][ wire' # wire => (caller' = caller /\ results' = results) ]_vars

\* A write failed short, was reported once, and the next frame was written.
C6_Witness ==
    /\ Len(wire) >= 2
    /\ wire[1].res = "short"
    /\ wire[2].res = "ok"
    /\ Len(errorEvents) = 1

\* ---- C7
\* C7 (as claimed): the frame craftPacket built, echoed to the framer, is
\* assembled whole, passes the checksum test and is routed as read.
C7_RoundTrip ==
    rxLog # << >> =>
        /\ rxLog[1] = Serialize(enqLog[1])
        /\ ChecksumOK(rxLog[1])

\* C7 (amended): the serialized frame taken whole passes the framer's
\* checksum test and holds did, cid, seq, length and body at bytes 2, 3, 4, 5
\* and 6..; the framer's read step takes a 5-byte header and byte 4 of it
\* (the command's sequence byte) as the body length, so what it assembles
\* first is the whole frame exactly when seq = len(body) + 2, and then the
\* frame is accepted.
C7_WholeFrameValidates ==
    LET p == enqLog[1]
        f == Serialize(p)
    IN  /\ ChecksumOK(f)
        /\ SubSeq(f, 1, 6) = p.header
        /\ SubSeq(f, 7, Len(f) - 1) = p.body
        /\ rxLog # << >> =>
               /\ rxLog[1] = f <=> p.header[5] = Len(p.body) + 2
               /\ rxLog[1] = f =>
                      << f >> = SubSeq(syncLog \o (IF sw.pc = "store" THEN << sw.resp >> ELSE << >>)
                                    \o responseChannel
                                    \o (IF rx.pc = "syncSend" THEN << rx.data >> ELSE << >>), 1, 1)

\* An echoed frame with a body was assembled whole and stored.
C7_Witness ==
    /\ enqLog[1].body # << >>
    /\ rxLog # << >>
    /\ rxLog[1] = Serialize(enqLog[1])
    /\ syncResponse = << Serialize(enqLog[1]) >>

\* ---- C8
\* C8 (as claimed): the length byte (header index 5) of every frame
\* craftPacket built is the number of bytes of its body.
C8_LengthIsBodyLength ==
    \A k \in 1..Len(enqLog) : enqLog[k].header[6] = Len(enqLog[k].body)

\* C8 (amended): the length byte is the number of bytes of the body plus
\* one (the checksum byte), as a uint8.
C8_LengthCountsChecksum ==
    \A k \in 1..Len(enqLog) : enqLog[k].header[6] = (Len(enqLog[k].body) + 1) % 256

\* A frame with a 13-byte body was built: its length byte is 14.
C8_Witness ==
    /\ Len(enqLog[1].body) = 13
    /\ enqLog[1].header[6] = 14

\* ---- C9
\* C9: the checksum of every frame craftPacket built is 255 minus the sum
\* modulo 256 of did, cid, seq, length and the body bytes (the start bytes
\* left out), and the framer's test accepts a received frame exactly when
\* its last byte is that function of its bytes [2 .. last-1].
C9_ChecksumFunction ==
    /\ \A k \in 1..Len(enqLog) :
           LET p == enqLog[k]
           IN  p.checksum =
                   255 - ((p.header[3] + p.header[4] + p.header[5] + p.header[6]
                           + PlainSum(p.body)) % 256)
    /\ \A k \in 1..Len(rxLog) :
           Route(rxLog[k]) # "drop" <=>
               (ExpectedValid(rxLog[k]) /\ rxLog[k][2] \in { 254, 255 })

\* A frame with a body was built, and the framer's test accepted a frame
\* it assembled, which was stored.
C9_Witness ==
    /\ enqLog[1].body # << >>
    /\ \E k \in 1..Len(rxLog) : Route(rxLog[k]) # "drop"
    /\ syncLog # << >>

\* ---- C10
IsValidAsync(data) == ExpectedValid(data) /\ data[2] = 254
IsValidSync(data)  == ExpectedValid(data) /\ data[2] = 255

TickDone(t) == t < disp.tick \/ (t = disp.tick /\ disp.pc = "sleep")
IsOfTick(e, t) == e.tick = t
\* The positions in dispLog of the frames taken in tick t.
TickEntries(t) == { i \in 1..Len(dispLog) : dispLog[i].tick = t }
\* The positions in dispLog at which frame f was taken.
TakenAt(f) == { i \in 1..Len(dispLog) : dispLog[i].frame = f }

\* C11 (as claimed): in a finished tick the frames are taken most recent
\* first; for a collision frame that stood below a streaming frame in the
\* buffer when the tick began, the streaming event is published before the
\* collision event, and each of the two frames is taken and published exactly
\* once.
C11_LifoEachOnce ==
    \A t \in 1..disp.tick :
        (TickDone(t) /\ TickEntries(t) # {}) =>
            LET B == dispLog[CHOOSE i \in TickEntries(t) : TRUE].start
            IN  \A a, b \in 1..Len(B) :
                    (a < b /\ B[a][3] = 7 /\ Len(B[a]) = 22
                           /\ B[b][3] = 3 /\ Len(B[b]) = 90) =>
                        /\ Cardinality(TakenAt(B[a])) = 1
                        /\ Cardinality(TakenAt(B[b])) = 1
                        /\ \A i \in TakenAt(B[a]), j \in TakenAt(B[b]) :
                               /\ j < i
                               /\ dispLog[i].tick = t /\ dispLog[j].tick = t
                               /\ dispLog[i].topic = "collision"
                               /\ dispLog[j].topic = "sensordata"

\* ---- C12
\* C12 (as claimed): every frame of 90 bytes the dispatcher takes is
\* published on the sensordata topic, whatever its other bytes are.
C12_Every90Published ==
    \A i \in 1..Len(dispLog) :
        Len(dispLog[i].frame) = 90 => dispLog[i].topic = "sensordata"

\* C12 (amended): a frame the dispatcher takes is published on the
\* sensordata topic, once and with the bytes after its 5-byte header as the
\* sample, exactly when it has 90 bytes and its byte at index 2 is 0x03; a
\* 90-byte frame with another id byte publishes nothing on that topic.
C12_Streaming90WithId ==
    \A i \in 1..Len(dispLog) :
        LET e == dispLog[i]
        IN  /\ e.topic = "sensordata" <=> (Len(e.frame) = 90 /\ e.frame[3] = 3)
            /\ e.topic = "sensordata" => e.payload = SubSeq(e.frame, 6, 90)

\* A streaming sample was published, and a 90-byte frame with the collision
\* id was taken and not published.
C12_Witness ==
    /\ \E i \in 1..Len(dispLog) : dispLog[i].topic = "sensordata"
    /\ \E i \in 1..Len(dispLog) :
           /\ Len(dispLog[i].frame) = 90
           /\ dispLog[i].frame[3] = 7
           /\ dispLog[i].topic = "none"

\* ---- C13
\* C13: a collision event is published only for a frame of exactly 22 bytes
\* whose byte at index 4 is 17; taking a frame of any shape publishes no
\* error event and leaves the dispatcher running: it has not panicked and,
\* inside its loop, its next step is enabled.
C13_CollisionOnlyFor22 ==
    /\ \A i \in 1..Len(dispLog) :
           dispLog[i].topic = "collision" =>
               (Len(dispLog[i].frame) = 22 /\ dispLog[i].frame[5] = 17)
    /\ errorEvents = << >>
    /\ disp.pc \in { "sleep", "drain", "store" }
    /\ disp.pc = "drain" => (ENABLED DispLoad \/ ENABLED DispSleep)
    /\ disp.pc = "store" => ENABLED DispStore

\* A frame with the collision id and another length was discarded, and the
\* same tick went on to take a collision frame and publish it.
C13_Witness ==
    /\ \E j \in 1..Len(dispLog) : \E i \in (j + 1)..Len(dispLog) :
           /\ dispLog[j].frame[3] = 7
           /\ Len(dispLog[j].frame) # 22
           /\ dispLog[j].topic = "none"
           /\ dispLog[i].topic = "collision"
           /\ dispLog[i].tick = dispLog[j].tick
    /\ disp.pc = "sleep"

\* ---- C14
\* The packets call k of callLog has enqueued so far, and whether it is over.
FirstOf(k) == callLog[k].from + 1
LastOf(k)  == IF k < Len(callLog) THEN callLog[k + 1].from ELSE Len(enqLog)
CallFrames(k) == SubSeq(enqLog, FirstOf(k), LastOf(k))
CallDone(k) == k < Len(callLog) \/ caller.pc = "idle"
Ids(p) == << p.header[3], p.header[4] >>

\* C14 (as claimed): every call of Stop enqueues two frames, a
\* data-streaming frame (0x02, 0x11) whose setting has divisor 42 and frame
\* count 0, then a roll frame (0x02, 0x30) with speed 0 and heading 0.
C14_StopZeroFrameCount ==
    \A k \in 1..Len(callLog) :
        (callLog[k].op = "Stop" /\ CallDone(k)) =>
            /\ Len(CallFrames(k)) = 2
            /\ Ids(CallFrames(k)[1]) = << 2, 17 >>
            /\ callLog[k].args.N = 42
            /\ callLog[k].args.M = 0
            /\ Ids(CallFrames(k)[2]) = << 2, 48 >>
            /\ CallFrames(k)[2].body = << 0, 0, 0, 1 >>

\* C14 (amended): every call of Stop enqueues exactly two frames, in this
\* order: a data-streaming frame (0x02, 0x11) whose 13-byte body encodes
\* divisor 42, frame count 1 (the argument 0, coerced), sample count 0 and
\* both masks 0; then a roll frame (0x02, 0x30) with speed 0, heading 0 and
\* the state byte 1.  A call in progress has enqueued a prefix of the two.
C14_StopTwoFrames ==
    \A k \in 1..Len(callLog) :
        callLog[k].op = "Stop" =>
            LET fs == CallFrames(k)
            IN  /\ Len(fs) <= 2
                /\ CallDone(k) => Len(fs) = 2
                /\ callLog[k].args = [ N |-> 42, M |-> 1, Pcnt |-> 0, Mask |-> 0, Mask2 |-> 0 ]
                /\ Len(fs) >= 1 =>
                       /\ Ids(fs[1]) = << 2, 17 >>
                       /\ fs[1].body = << 0, 42, 0, 1, 0, 0, 0, 0, 0, 0, 0, 0, 0 >>
                /\ Len(fs) = 2 =>
                       /\ Ids(fs[2]) = << 2, 48 >>
                       /\ fs[2].body = << 0, 0, 0, 1 >>

\* A call of Stop returned after another command, and its two frames were
\* written.
C14_Witness ==
    /\ Len(callLog) = 3
    /\ callLog[3].op = "Stop"
    /\ caller.pc = "idle"
    /\ Len(wire) = Len(enqLog)
    /\ Len(enqLog) = callLog[3].from + 2

\* ---- C15
\* The divisor and the frame count the claim gives for the arguments.
ExpectedN(freq) == IF 0 < freq /\ freq < 420 THEN 420 \div freq ELSE 42
ExpectedM(frames) == IF frames = 0 THEN 1 ELSE frames

\* C15: the frame a call of SetDataStreaming enqueues has the body that
\* encodes N = 420 / freq when 0 < freq < 420 and N = 42 otherwise, M =
\* frames with 0 sent as 1, and count and masks as given; so the calls
\* (0, 0, mask, 0, mask2) and (10, 1, mask, 0, mask2) enqueue equal bodies.
C15_DivisorAndFrames ==
    /\ \A k \in 1..Len(callLog) :
           (callLog[k].op = "SetDataStreaming" /\ CallFrames(k) # << >>) =>
               LET a == callLog[k].args
               IN  /\ Len(CallFrames(k)) = 1
                   /\ Ids(CallFrames(k)[1]) = << 2, 17 >>
                   /\ CallFrames(k)[1].body =
                          BinaryWriteSetting([ N |-> ExpectedN(a[1]), M |-> ExpectedM(a[2]),
                                               Pcnt |-> a[4], Mask |-> a[3], Mask2 |-> a[5] ])
    /\ \A j, k \in 1..Len(callLog) :
           ( /\ callLog[j].op = "SetDataStreaming"
             /\ callLog[k].op = "SetDataStreaming"
             /\ CallFrames(j) # << >> /\ CallFrames(k) # << >>
             /\ callLog[j].args[1] = 0 /\ callLog[j].args[2] = 0
             /\ callLog[k].args[1] = 10 /\ callLog[k].args[2] = 1
             /\ callLog[j].args[3] = callLog[k].args[3]
             /\ callLog[j].args[4] = 0 /\ callLog[k].args[4] = 0
             /\ callLog[j].args[5] = callLog[k].args[5] ) =>
               CallFrames(j)[1].body = CallFrames(k)[1].body

\* SetDataStreaming(0, 0, mask, 0, mask2) and then
\* SetDataStreaming(10, 1, mask, 0, mask2) were called and their frames
\* enqueued.
C15_Witness ==
    /\ Len(callLog) = 3
    /\ callLog[2].op = "SetDataStreaming" /\ callLog[2].args[1] = 0
    /\ callLog[2].args[3] # 0
    /\ callLog[3].op = "SetDataStreaming" /\ callLog[3].args[1] = 10
    /\ Len(enqLog) = 4
    /\ enqLog[3].body = enqLog[4].body

\* ---- C16
\* A collision-detection configuration was applied before call k.
ConfiguredBefore(k) ==
    \E j \in 1..(k - 1) : callLog[j].op \in { "ConfigureCollisionDetection", "Start" }
IdsAndBody(p) == << p.header[3], p.header[4], p.body >>
DefaultConfigFrame == << 2, 18, << 1, 128, 128, 128, 128, 96 >> >>
DisconnectFrame    == << 2, 55, << 0, 0, 0, 1 >> >>
ExpectedOfStart(k) ==
    IF ConfiguredBefore(k) THEN << DisconnectFrame >>
    ELSE << DefaultConfigFrame, DisconnectFrame >>

\* C16: a call of Start enqueues the default collision configuration
\* exactly when no configuration was applied before it (by
\* ConfigureCollisionDetection or by an earlier Start), and then before the
\* disconnect-safety frame and before it returns; a returned Start has
\* enqueued the disconnect-safety frame last; and no default configuration
\* frame follows any configuration frame in the queue's history.
C16_DefaultIffUnconfigured ==
    /\ \A k \in 1..Len(callLog) :
           callLog[k].op = "Start" =>
               LET fs  == CallFrames(k)
                   exp == ExpectedOfStart(k)
               IN  /\ Len(fs) <= Len(exp)
                   /\ \A i \in 1..Len(fs) : IdsAndBody(fs[i]) = exp[i]
                   /\ CallDone(k) => Len(fs) = Len(exp)
    /\ \A i, j \in 1..Len(enqLog) :
           (i < j /\ Ids(enqLog[i]) = << 2, 18 >>) =>
               IdsAndBody(enqLog[j]) # DefaultConfigFrame

\* Start on a fresh driver sent the default configuration and the
\* disconnect-safety frame; the user then configured collision detection
\* and Start was called again, which sent the disconnect-safety frame alone.
C16_Witness ==
    /\ Len(callLog) = 3
    /\ callLog[1].op = "Start"
    /\ callLog[2].op = "ConfigureCollisionDetection"
    /\ callLog[3].op = "Start"
    /\ caller.pc = "idle"
    /\ Len(enqLog) = 4
    /\ IdsAndBody(enqLog[1]) = DefaultConfigFrame
    /\ IdsAndBody(enqLog[4]) = DisconnectFrame

\* ---- C17
RECURSIVE Flatten(_)
\* The bytes of a sequence of frames, in order.
Flatten(fs) == IF fs = << >> THEN << >> ELSE Head(fs) \o Flatten(Tail(fs))

SyncWriterMidUpdate  == sw.pc = "store"
SyncCallerMidUpdate  == caller.pc = "pop"
AsyncFramerMidUpdate == rx.pc = "asyncStore"
AsyncDispMidUpdate   == disp.pc = "store"

\* C18 (as claimed): in no reachable state are two workers in the middle of
\* a read-modify-write of the same buffer: not the sync-buffer writer and a
\* getSyncResponse caller on the sync buffer, and not the framer and the
\* dispatcher on the async buffer.
C18_OneMutationPerBuffer ==
    /\ ~(SyncWriterMidUpdate /\ SyncCallerMidUpdate)
    /\ ~(AsyncFramerMidUpdate /\ AsyncDispMidUpdate)

\* The same for the sync buffer alone.
C18_SyncBufferOnly == ~(SyncWriterMidUpdate /\ SyncCallerMidUpdate)

\* ---- C19
\* The frames enqueued since Halt was entered are Stop's pairs: a
\* data-streaming frame and a roll frame in turn.
StopPairsSince(n) ==
    \A k \in (n + 1)..Len(enqLog) :
        Ids(enqLog[k]) = IF (k - n) % 2 = 1 THEN << 2, 17 >> ELSE << 2, 48 >>

\* C19 (as claimed): a Halt on a disconnected adaptor enqueues nothing;
\* a Halt on a connected one enqueues Stop's frames while it executes, and
\* once Halt has returned no further frame is enqueued.
C19_NoStopAfterHalt ==
    /\ halt.pc # "idle" => StopPairsSince(halt.from)
    /\ halt.pc = "returned" => Len(enqLog) = halt.ret

\* What does hold at shutdown: nothing is enqueued before Halt is entered,
\* and what is enqueued from then on are Stop's frames.
C19_OnlyStopPairs ==
    /\ halt.pc # "idle" => StopPairsSince(halt.from)
    /\ halt.pc = "idle" => Len(enqLog) = 2

\* ---- C20
\* The sequence byte of a written frame (index 4 of the header).
SeqByteOf(w) == w.frame[5]

\* C20 (as claimed): the sequence byte of each successfully written frame
\* is the number of frames written successfully before it, mod 256, counted
\* from the driver's sequence value at construction; so two frames written
\* one after the other never carry the same sequence byte.
C20_ConsecutiveSeq ==
    /\ \A k \in 1..Len(wire) :
           wire[k].res = "ok" =>
               SeqByteOf(wire[k]) = (okBefore + NumOk(SubSeq(wire, 1, k - 1))) % 256
    /\ \A k \in 1..(Len(wire) - 1) :
           (wire[k].res = "ok" /\ wire[k + 1].res = "ok") =>
               SeqByteOf(wire[k]) # SeqByteOf(wire[k + 1])

\* What does hold: the sequence byte of a written frame is the value the
\* counter had at some point before the write, never a later one.
C20_SeqNotAhead ==
    \A k \in 1..Len(wire) :
        \E j \in 0..(k - 1) :
            SeqByteOf(wire[k]) = (okBefore + NumOk(SubSeq(wire, 1, j))) % 256

\* ---- C21
\* d has the header and all the bytes its length byte announces.
WholeFrame(d) == Len(d) >= 5 /\ Len(d) = 5 + d[5]

\* C21 (as claimed): a frame whose header or body read failed is abandoned,
\* so whatever the framer is about to push, has put on the response channel
\* or has appended to the sync or the async buffer is a frame all of whose
\* announced bytes were read.
C21_ErrorAbandonsFrame ==
    /\ rx.pc \in { "asyncStore", "syncSend" } => WholeFrame(rx.data)
    /\ \A k \in 1..Len(responseChannel) : WholeFrame(responseChannel[k])
    /\ \A k \in 1..Len(syncLog) : WholeFrame(syncLog[k])
    /\ \A k \in 1..Len(asyncLog) : WholeFrame(asyncLog[k])

\* What does hold: an error during the header read abandons the frame and
\* restarts the framer at a header read, and an error during the body read
\* hands the bare header to the checksum test.
C21_HeaderErrorAbandons ==
    [][ nReadErrors' # nReadErrors =>
          /\ UNCHANGED << asyncResponse, responseChannel, syncResponse, dispLog >>
          /\ rx.pc = "header" => (rx' = RxIdle /\ UNCHANGED rxLog)
          /\ rx.pc = "body" =>
                 /\ rxLog' = Append(rxLog, rx.header)
                 /\ rx'.pc # "header" => rx'.data = rx.header ]_vars

\* ---- C22
\* The framer and the dispatcher are at rest and nothing is left to read
\* or to take.
AsyncQuiet ==
    /\ inStream = << >>
    /\ rx = RxIdle
    /\ asyncResponse = << >>
    /\ disp.pc = "sleep"

\* How often the dispatcher took frame f out of the buffer.
TimesTaken(f) == Cardinality({ i \in 1..Len(dispLog) : dispLog[i].frame = f })

\* C22 (as claimed): under every interleaving of the framer's append and
\* the dispatcher's pop, no frame appended to the async buffer is taken by
\* the dispatcher more than once, and once the dispatcher has drained the
\* buffer every frame appended to it has been taken exactly once.  (The
\* frames of a run differ in their stamp byte.)
C22_TakenExactlyOnce ==
    /\ \A k \in 1..Len(asyncLog) : TimesTaken(asyncLog[k]) <= 1
    /\ AsyncQuiet => \A k \in 1..Len(asyncLog) : TimesTaken(asyncLog[k]) = 1

\* What does hold: the dispatcher takes nothing but frames the framer
\* appended.
C22_TakenWasAppended ==
    \A i \in 1..Len(dispLog) :
        \E k \in 1..Len(asyncLog) : asyncLog[k] = dispLog[i].frame

\* The two halves of C22 apart: no frame taken twice; no frame lost.
C22_NeverTwice == \A k \in 1..Len(asyncLog) : TimesTaken(asyncLog[k]) <= 1
C22_NeverLost ==
    AsyncQuiet => \A k \in 1..Len(asyncLog) : TimesTaken(asyncLog[k]) >= 1

\* ---- C23
\* The frame the framer is reading, as the device sent it (empty when the
\* device has sent no further frame).
FrameInProgress ==
    IF Len(rxLog) < Len(sentLog) THEN sentLog[Len(rxLog) + 1] ELSE << >>

\* C23: while no read fails, readNextChunk returns exactly the number of
\* bytes it was called with (a header of 5 bytes, a body of as many bytes
\* as the length byte says) and holds fewer while it is still reading; the
\* bytes it has returned and holds, followed by what is still on the line,
\* are the bytes the device sent, in order; and what it has taken of the
\* frame being read is the beginning of that frame and nothing of the one
\* behind it.
C23_ChunkExact ==
    nReadErrors = 0 =>
        /\ rx.pc = "header" => Len(rx.buf) < 5
        /\ rx.pc = "body" => (Len(rx.header) = 5 /\ Len(rx.buf) < rx.header[5])
        /\ \A k \in 1..Len(rxLog) : Len(rxLog[k]) = 5 + rxLog[k][5]
        /\ Flatten(rxLog) \o rx.header \o rx.buf \o inStream = Flatten(sentLog)
        /\ Len(rx.header) + Len(rx.buf) <= Len(FrameInProgress)
        /\ rx.header \o rx.buf
               = SubSeq(FrameInProgress, 1, Len(rx.header) + Len(rx.buf))

\* Two frames arrived back to back; the first was assembled whole, and of
\* the second the header was read and then a Read returned a part of the
\* body, the rest of it still on the line.
C23_Witness ==
    /\ nReadErrors = 0
    /\ Len(sentLog) = 2
    /\ rxLog = << sentLog[1] >>
    /\ rx.pc = "body"
    /\ rx.buf # << >>
    /\ inStream # << >>
    /\ rx.header \o rx.buf \o inStream = sentLog[2]

====
